---- MODULE Spec2Model ----
(***************************************************************************)
(* Model of package grab (src/grab.go): the Repository container, its Get  *)
(* method with the cache (grabbers), the pending set (pendding) and the    *)
(* reader/writer guard (mtx), and the reflective assign function.          *)
(* Producers (Grabbers) follow the ones of the package's tests.            *)
(***************************************************************************)
EXTENDS Integers, Sequences, FiniteSets, TLC

VARIABLES
    grabbers,   \* Repository.grabbers: map[Grabber]interface{} (the cache)
    pendding,   \* Repository.pendding: map[Grabber]struct{} (keys only)
    mtx,        \* Repository.mtx: holders of the sync.RWMutex
    stack,      \* per goroutine: the Get calls in progress, innermost last
    slot,       \* per goroutine: the caller's destination variable
    hist,       \* per goroutine: the Get calls that returned, in order
    started,    \* per producer: how many times g.Grab was invoked
    built,      \* per producer: how many times g.Grab returned a value
    nextId,     \* identity of the next allocated instance
    mocks,      \* overlay: map[Grabber]interface{} of overrides
    mockLog,    \* the Mock calls that returned, in order
    crashed,    \* an unrecovered panic or fatal error ended the process
    probe,      \* one direct application of assign (inputs and outcome)
    predefinedGrabbers  \* Repository.predefinedGrabbers: map[string]Grabber

vars == <<grabbers, pendding, mtx, stack, slot, hist, started, built,
          nextId, mocks, mockLog, crashed, probe, predefinedGrabbers>>

------------------------------------------------------------------------------
(* Bounds *)

\* Get calls issued by the caller of the single-caller specifications
MaxCalls == 2

\* Get calls issued by the concurrent callers, all together
MaxConcCalls == 3

\* Mock calls issued
MaxMocks == 2

------------------------------------------------------------------------------
(* Errors: the sentinel values of grab.go, plus the test's errOops *)

ErrSrcMustBePointer == "ErrSrcMustBePointer"
ErrDestMustBeDoublePointer == "ErrDestMustBeDoublePointer"
ErrDestMustBePointer == "ErrDestMustBePointer"
ErrDestInterfaceMustBePointer == "ErrDestInterfaceMustBePointer"
ErrCircularDependency == "ErrCircularDependency"
ErrAlreadyMocked == "ErrAlreadyMocked"
errOops == "errOops"
\* err == nil
NoErr == "nil"
\* not an error value: the call panicked instead of returning
Panic == "panic"

ShapeErrors == {ErrDestInterfaceMustBePointer, ErrDestMustBePointer,
                ErrDestMustBeDoublePointer}

------------------------------------------------------------------------------
(* Values and destinations as reflect sees them *)

\* struct types of the tests; "dummy", "foo" and "bar" have a Say method on
\* the pointer receiver
BaseTypes == {"foo", "bar", "MockTestData"}

\* interface types: the tests' speak, and interface{}
Ifaces == {"speak", "any"}

\* pointer types *T that implement interface i
Implementors(i) == IF i = "speak" THEN {"foo", "bar"} ELSE BaseTypes

\* a value held in an interface{}: kind "nil" is the nil interface (no type),
\* "struct" a non-pointer value of type T, "ptr" a *T; id is the identity of
\* the pointee (0: a typed nil pointer), dep the identity of the instance the
\* pointee embeds (0: none)
NilValue == [kind |-> "nil", type |-> "", id |-> 0, dep |-> 0]
StructValue(T) == [kind |-> "struct", type |-> T, id |-> 0, dep |-> 0]
PtrValue(T, i, d) == [kind |-> "ptr", type |-> T, id |-> i, dep |-> d]

\* a destination argument: kind "nil" is a nil interface value passed as it
\* is, "struct" a non-pointer, "ptr" a pointer whose pointee has kind elem
\* ("struct", "ptr": the pointee is a *etype, "iface": the pointee is an
\* interface etype); null: the pointer itself is nil
Dest(k, e, T, n) == [kind |-> k, elem |-> e, etype |-> T, null |-> n]
DestBareIface == Dest("nil", "", "", FALSE)
DestStruct == Dest("struct", "", "bar", FALSE)
DestPtrStruct == Dest("ptr", "struct", "bar", FALSE)
DestPtrPtr(T) == Dest("ptr", "ptr", T, FALSE)
DestPtrIface(i) == Dest("ptr", "iface", i, FALSE)

\* reflect.Value.Set: the value's type must be assignable to the slot's type
AssignableTo(src, dest) ==
    IF dest.elem = "ptr" THEN src.type = dest.etype
    ELSE src.type \in Implementors(dest.etype)

\* assign(dest, src) with old the content of the slot dest addresses:
\* the error returned (or Panic) and the content of the slot afterwards
assignSetsFirst(dest, src, old) ==
    IF dest.kind = "nil" THEN [err |-> ErrDestInterfaceMustBePointer, slot |-> old]
    ELSE IF dest.kind # "ptr" THEN [err |-> ErrDestMustBePointer, slot |-> old]
    ELSE IF dest.elem \notin {"iface", "ptr"}
        THEN [err |-> ErrDestMustBeDoublePointer, slot |-> old]
    ELSE IF src.kind = "nil" THEN [err |-> Panic, slot |-> old]
    ELSE IF src.kind # "ptr" THEN [err |-> ErrSrcMustBePointer, slot |-> src]
    ELSE IF dest.null \/ ~AssignableTo(src, dest) THEN [err |-> Panic, slot |-> old]
    ELSE [err |-> NoErr, slot |-> src]

assign(dest, src, old) ==
    \* destType == nil: dest was a nil interface value
    IF dest.kind = "nil" THEN [err |-> ErrDestInterfaceMustBePointer, slot |-> old]
    ELSE IF dest.kind # "ptr" THEN [err |-> ErrDestMustBePointer, slot |-> old]
    ELSE IF dest.elem \notin {"iface", "ptr"}
        THEN [err |-> ErrDestMustBeDoublePointer, slot |-> old]
    \* reflect.TypeOf(nil) is nil: srcType.Kind() dereferences it
    ELSE IF src.kind = "nil" THEN [err |-> Panic, slot |-> old]
    ELSE IF src.kind # "ptr" THEN [err |-> ErrSrcMustBePointer, slot |-> old]
    \* reflect.ValueOf(dest).Elem().Set(reflect.ValueOf(src))
    ELSE IF dest.null \/ ~AssignableTo(src, dest) THEN [err |-> Panic, slot |-> old]
    ELSE [err |-> NoErr, slot |-> src]

------------------------------------------------------------------------------
(* Producers: the Grabbers of the tests, and cyclic ones *)

\* goroutines calling Get
Threads == {"t1", "t2"}

\* grabFoo, grabBar: part_000 47, 62; grabTest returns bar{} (134); grabOops
\* fails with errOops (151); grabNil returns (nil, nil); grabSelf resolves
\* itself; grabPing and grabPong resolve each other
Producers == {"grabFoo", "grabBar", "grabTest", "grabOops", "grabNil",
              "grabSelf", "grabPing", "grabPong"}

\* the producers a producer's Grab resolves through c.Get, in order
Deps(g) ==
    CASE g = "grabBar" -> <<"grabFoo">>
      [] g = "grabSelf" -> <<"grabSelf">>
      [] g = "grabPing" -> <<"grabPong">>
      [] g = "grabPong" -> <<"grabPing">>
      [] OTHER -> <<>>

\* the type of the struct a producer builds
ResultType(g) == IF g = "grabFoo" THEN "foo" ELSE "bar"

\* what Grab returns once its dependencies are resolved: the value and the
\* error; i is the identity of a newly allocated instance, local the value
\* its c.Get delivered to it
GrabResult(g, i, local) ==
    CASE g = "grabOops" -> [val |-> NilValue, err |-> errOops]
      [] g = "grabNil" -> [val |-> NilValue, err |-> NoErr]
      [] g = "grabTest" -> [val |-> StructValue("bar"), err |-> NoErr]
      [] OTHER -> [val |-> PtrValue(ResultType(g), i, local.id), err |-> NoErr]

\* grabbers built by grab.NamedFunc(name, fn): namedCfg is the one handed to
\* New, namedCfgReal carries the same name, namedLog a name New was not
\* given, namedEmpty the empty name.  Their fn returns a new *bar
NamedGrabbers == {"namedCfg", "namedCfgReal", "namedLog", "namedEmpty"}

\* namedGrabber.Name()
Name(g) ==
    CASE g \in {"namedCfg", "namedCfgReal"} -> "cfg"
      [] g = "namedLog" -> "log"
      [] OTHER -> ""

\* lines 85-87: where Get starts for g: the predefined lookup for a
\* NamedGrabber with a non-empty name, the cache lookup for any other
EntryPc(g) == IF g \in NamedGrabbers /\ Name(g) # "" THEN "L88" ELSE "L98"

\* the destination a producer passes to c.Get: the address of a local
\* interface variable (var speak speak; c.Get(&speak, grabFoo))
DepDest == DestPtrIface("speak")

------------------------------------------------------------------------------
(* State helpers *)

NoFrame == <<>>

Frame(c, g, d, pc) ==
    [c |-> c, g |-> g, dest |-> d, pc |-> pc, di |-> 1,
     local |-> NilValue, val |-> NilValue, err |-> NoErr]

Depth(t) == Len(stack[t])
Top(t) == stack[t][Depth(t)]
At(t, pc) == ~crashed /\ Depth(t) > 0 /\ Top(t).pc = pc
SetTop(t, f) == [stack EXCEPT ![t] = [@ EXCEPT ![Len(@)] = f]]

\* the content of the slot the innermost call's dest addresses: the caller's
\* variable, or the local variable of the producer that issued the call
Before(t) == IF Depth(t) = 1 THEN slot[t] ELSE stack[t][Depth(t) - 1].local

CallsIssued == Len(hist["t1"]) + Len(hist["t2"])
    + (IF Depth("t1") > 0 THEN 1 ELSE 0) + (IF Depth("t2") > 0 THEN 1 ELSE 0)

MapPut(m, k, v) == [x \in DOMAIN m \cup {k} |-> IF x = k THEN v ELSE m[x]]

\* the innermost Get of t returns r.err, r.slot being the content of the slot
\* its dest addresses; a panic is not recovered and ends the process.  The
\* record of a caller's call keeps n, the number of times the producer's Grab
\* had been invoked when the call returned
Return(t, r) ==
    IF r.err = Panic
    THEN /\ crashed' = TRUE
         /\ UNCHANGED <<stack, slot, hist>>
    ELSE /\ crashed' = crashed
         /\ IF Depth(t) = 1
            THEN /\ stack' = [stack EXCEPT ![t] = NoFrame]
                 /\ slot' = [slot EXCEPT ![t] = r.slot]
                 /\ hist' = [hist EXCEPT ![t] = Append(@,
                        [c |-> Top(t).c, g |-> Top(t).g, dest |-> Top(t).dest,
                         err |-> r.err, before |-> slot[t], after |-> r.slot,
                         n |-> started[Top(t).g]])]
            ELSE /\ stack' = [stack EXCEPT ![t] =
                        Append(SubSeq(@, 1, Len(@) - 2),
                               [@[Len(@) - 1] EXCEPT !.local = r.slot,
                                                     !.err = r.err,
                                                     !.di = @ + 1])]
                 /\ UNCHANGED <<slot, hist>>

------------------------------------------------------------------------------
(* sync.RWMutex *)

MtxFree == [readers |-> {}, writer |-> "none"]
CanRLock == mtx.writer = "none"
CanLock == mtx.writer = "none" /\ mtx.readers = {}
RLock(t) == [mtx EXCEPT !.readers = @ \cup {t}]
RUnlock(t) == [mtx EXCEPT !.readers = @ \ {t}]
Lock(t) == [mtx EXCEPT !.writer = t]
Unlock(t) == [mtx EXCEPT !.writer = "none"]

------------------------------------------------------------------------------
(* Repository.Get, split at the acquisitions of the guard.  A producer      *)
(* built by grab.Func fails the NamedGrabber assertion of line 85, so Get    *)
(* starts at line 98 for it (EntryPc).                                       *)

\* a caller issues container.Get(dest, g) on container c
Call(t, c, g, d, pc, max) ==
    /\ ~crashed
    /\ Depth(t) = 0
    /\ CallsIssued < max
    /\ stack' = [stack EXCEPT ![t] = <<Frame(c, g, d, pc)>>]
    /\ UNCHANGED <<grabbers, pendding, mtx, slot, hist, started, built,
                   nextId, mocks, mockLog, crashed, probe,
                   predefinedGrabbers>>

\* line 98: s.mtx.RLock()
RLockCache(t) ==
    /\ At(t, "L98")
    /\ CanRLock
    /\ mtx' = RLock(t)
    /\ stack' = SetTop(t, [Top(t) EXCEPT !.pc = "L99"])
    /\ UNCHANGED <<grabbers, pendding, slot, hist, started, built, nextId,
                   mocks, mockLog, crashed, probe,
                   predefinedGrabbers>>

\* lines 99-104: the cache lookup; a hit returns assign(dest, value)
LookupCache(t) ==
    /\ At(t, "L99")
    /\ mtx' = RUnlock(t)
    /\ IF Top(t).g \in DOMAIN grabbers
       THEN Return(t, assign(Top(t).dest, grabbers[Top(t).g], Before(t)))
       ELSE /\ stack' = SetTop(t, [Top(t) EXCEPT !.pc = "L106"])
            /\ UNCHANGED <<slot, hist, crashed>>
    /\ UNCHANGED <<grabbers, pendding, started, built, nextId, mocks,
                   mockLog, probe,
                   predefinedGrabbers>>

\* line 106: s.mtx.RLock()
RLockPending(t) ==
    /\ At(t, "L106")
    /\ CanRLock
    /\ mtx' = RLock(t)
    /\ stack' = SetTop(t, [Top(t) EXCEPT !.pc = "L107"])
    /\ UNCHANGED <<grabbers, pendding, slot, hist, started, built, nextId,
                   mocks, mockLog, crashed, probe,
                   predefinedGrabbers>>

LookupPendingMisses(t) ==
    /\ At(t, "L107")
    /\ mtx' = RUnlock(t)
    /\ stack' = SetTop(t, [Top(t) EXCEPT !.pc = "L114"])
    /\ UNCHANGED <<grabbers, pendding, slot, hist, started, built, nextId,
                   mocks, mockLog, crashed, probe,
                   predefinedGrabbers>>

LookupPendingClearsMark(t) ==
    /\ At(t, "L107")
    /\ mtx' = RUnlock(t)
    /\ IF Top(t).g \in pendding
       THEN /\ pendding' = pendding \ {Top(t).g}
            /\ Return(t, [err |-> ErrCircularDependency, slot |-> Before(t)])
       ELSE /\ stack' = SetTop(t, [Top(t) EXCEPT !.pc = "L114"])
            /\ UNCHANGED <<pendding, slot, hist, crashed>>
    /\ UNCHANGED <<grabbers, started, built, nextId, mocks,
                   mockLog, probe,
                   predefinedGrabbers>>

\* lines 107-112: the pending lookup; a hit returns ErrCircularDependency
LookupPending(t) ==
    /\ At(t, "L107")
    /\ mtx' = RUnlock(t)
    /\ IF Top(t).g \in pendding
       THEN Return(t, [err |-> ErrCircularDependency, slot |-> Before(t)])
       ELSE /\ stack' = SetTop(t, [Top(t) EXCEPT !.pc = "L114"])
            /\ UNCHANGED <<slot, hist, crashed>>
    /\ UNCHANGED <<grabbers, pendding, started, built, nextId, mocks,
                   mockLog, probe,
                   predefinedGrabbers>>

\* line 114: s.mtx.Lock()
LockMark(t) ==
    /\ At(t, "L114")
    /\ CanLock
    /\ mtx' = Lock(t)
    /\ stack' = SetTop(t, [Top(t) EXCEPT !.pc = "L115"])
    /\ UNCHANGED <<grabbers, pendding, slot, hist, started, built, nextId,
                   mocks, mockLog, crashed, probe,
                   predefinedGrabbers>>

MarkPendingKeepsGuard(t) ==
    /\ At(t, "L115")
    /\ pendding' = pendding \cup {Top(t).g}
    /\ started' = [started EXCEPT ![Top(t).g] = @ + 1]
    /\ stack' = SetTop(t, [Top(t) EXCEPT !.pc = "L118"])
    /\ UNCHANGED <<grabbers, mtx, slot, hist, built, nextId, mocks, mockLog,
                   crashed, probe,
                   predefinedGrabbers>>

\* lines 115-118: mark g pending, release the guard, enter g.Grab(s)
MarkPending(t) ==
    /\ At(t, "L115")
    /\ pendding' = pendding \cup {Top(t).g}
    /\ mtx' = Unlock(t)
    /\ started' = [started EXCEPT ![Top(t).g] = @ + 1]
    /\ stack' = SetTop(t, [Top(t) EXCEPT !.pc = "L118"])
    /\ UNCHANGED <<grabbers, slot, hist, built, nextId, mocks, mockLog,
                   crashed, probe,
                   predefinedGrabbers>>

\* inside g.Grab: the producer resolves its next dependency with c.Get; c is
\* the s of line 118, the Repository itself, whoever called this Get
GrabGet(t) ==
    /\ At(t, "L118")
    /\ Top(t).err = NoErr
    /\ Top(t).di <= Len(Deps(Top(t).g))
    /\ stack' = [stack EXCEPT ![t] = Append(@,
            Frame("Repository", Deps(Top(t).g)[Top(t).di], DepDest,
                  EntryPc(Deps(Top(t).g)[Top(t).di])))]
    /\ UNCHANGED <<grabbers, pendding, mtx, slot, hist, started, built,
                   nextId, mocks, mockLog, crashed, probe,
                   predefinedGrabbers>>

\* lines 118-119: g.Grab returns; a failed c.Get inside it makes it return
\* that error (return nil, err)
GrabReturn(t) ==
    /\ At(t, "L118")
    /\ Top(t).err # NoErr \/ Top(t).di > Len(Deps(Top(t).g))
    /\ LET r == IF Top(t).err # NoErr
                THEN [val |-> NilValue, err |-> Top(t).err]
                ELSE GrabResult(Top(t).g, nextId, Top(t).local)
       IN IF r.err # NoErr
          THEN /\ stack' = SetTop(t, [Top(t) EXCEPT !.pc = "L120", !.err = r.err])
               /\ UNCHANGED <<built, nextId>>
          ELSE /\ stack' = SetTop(t, [Top(t) EXCEPT !.pc = "L126", !.val = r.val])
               /\ built' = [built EXCEPT ![Top(t).g] = @ + 1]
               /\ nextId' = IF r.val.kind = "ptr" THEN nextId + 1 ELSE nextId
    /\ UNCHANGED <<grabbers, pendding, mtx, slot, hist, started, mocks,
                   mockLog, crashed, probe,
                   predefinedGrabbers>>

\* line 120: s.mtx.Lock() on the failure path
LockUnmark(t) ==
    /\ At(t, "L120")
    /\ CanLock
    /\ mtx' = Lock(t)
    /\ stack' = SetTop(t, [Top(t) EXCEPT !.pc = "L121"])
    /\ UNCHANGED <<grabbers, pendding, slot, hist, started, built, nextId,
                   mocks, mockLog, crashed, probe,
                   predefinedGrabbers>>

UnmarkKeepsMark(t) ==
    /\ At(t, "L121")
    /\ mtx' = Unlock(t)
    /\ Return(t, [err |-> Top(t).err, slot |-> Before(t)])
    /\ UNCHANGED <<grabbers, pendding, started, built, nextId, mocks,
                   mockLog, probe,
                   predefinedGrabbers>>

\* lines 121-123: delete the pending mark, release the guard, return err
Unmark(t) ==
    /\ At(t, "L121")
    /\ pendding' = pendding \ {Top(t).g}
    /\ mtx' = Unlock(t)
    /\ Return(t, [err |-> Top(t).err, slot |-> Before(t)])
    /\ UNCHANGED <<grabbers, started, built, nextId, mocks, mockLog, probe,
                   predefinedGrabbers>>

\* line 126: s.mtx.Lock() on the success path
LockStore(t) ==
    /\ At(t, "L126")
    /\ CanLock
    /\ mtx' = Lock(t)
    /\ stack' = SetTop(t, [Top(t) EXCEPT !.pc = "L127"])
    /\ UNCHANGED <<grabbers, pendding, slot, hist, started, built, nextId,
                   mocks, mockLog, crashed, probe,
                   predefinedGrabbers>>

StoreForgets(t) ==
    /\ At(t, "L127")
    /\ pendding' = pendding \ {Top(t).g}
    /\ mtx' = Unlock(t)
    /\ Return(t, assign(Top(t).dest, Top(t).val, Before(t)))
    /\ UNCHANGED <<grabbers, started, built, nextId, mocks, mockLog, probe,
                   predefinedGrabbers>>

StoreKeepsMark(t) ==
    /\ At(t, "L127")
    /\ grabbers' = MapPut(grabbers, Top(t).g, Top(t).val)
    /\ mtx' = Unlock(t)
    /\ Return(t, assign(Top(t).dest, Top(t).val, Before(t)))
    /\ UNCHANGED <<pendding, started, built, nextId, mocks, mockLog, probe,
                   predefinedGrabbers>>

\* lines 127-131: record the value, delete the pending mark, release the
\* guard, return assign(dest, value)
Store(t) ==
    /\ At(t, "L127")
    /\ grabbers' = MapPut(grabbers, Top(t).g, Top(t).val)
    /\ pendding' = pendding \ {Top(t).g}
    /\ mtx' = Unlock(t)
    /\ Return(t, assign(Top(t).dest, Top(t).val, Before(t)))
    /\ UNCHANGED <<started, built, nextId, mocks, mockLog, probe,
                   predefinedGrabbers>>

\* every step of a Get call in progress
GetStep(t) ==
    \/ RLockCache(t)
    \/ LookupCache(t)
    \/ RLockPending(t)
    \/ LookupPending(t)
    \/ LockMark(t)
    \/ MarkPending(t)
    \/ GrabGet(t)
    \/ GrabReturn(t)
    \/ LockUnmark(t)
    \/ Unmark(t)
    \/ LockStore(t)
    \/ Store(t)

------------------------------------------------------------------------------
(* The predefined lookup of Get, lines 85-94 *)

\* line 88: s.mtx.RLock()
RLockNamed(t) ==
    /\ At(t, "L88")
    /\ CanRLock
    /\ mtx' = RLock(t)
    /\ stack' = SetTop(t, [Top(t) EXCEPT !.pc = "L89"])
    /\ UNCHANGED <<grabbers, pendding, slot, hist, started, built, nextId,
                   mocks, mockLog, crashed, probe, predefinedGrabbers>>

\* lines 89-92: g becomes the predefined grabber of its name, if there is
\* one, then s.mtx.Unlock().  t holds the guard in shared mode only: with no
\* writer holding or awaiting the guard, sync.RWMutex.Unlock ends the process
\* with the fatal error "sync: Unlock of unlocked RWMutex"
LookupNamed(t) ==
    /\ At(t, "L89")
    /\ LET n == Name(Top(t).g)
           g2 == IF n \in DOMAIN predefinedGrabbers
                 THEN predefinedGrabbers[n] ELSE Top(t).g
       IN IF mtx.writer = t
          THEN /\ mtx' = Unlock(t)
               /\ stack' = SetTop(t, [Top(t) EXCEPT !.g = g2, !.pc = "L98"])
               /\ crashed' = crashed
          ELSE /\ mtx' = mtx
               /\ stack' = SetTop(t, [Top(t) EXCEPT !.g = g2, !.pc = "L92"])
               /\ crashed' = TRUE
    /\ UNCHANGED <<grabbers, pendding, slot, hist, started, built, nextId,
                   mocks, mockLog, probe, predefinedGrabbers>>

------------------------------------------------------------------------------
(* The mock overlay: a container that keeps overrides and wraps the         *)
(* Repository.  Mock records an override; Get looks the override up first    *)
(* and otherwise delegates to Repository.Get, which hands producers the      *)
(* Repository itself as their container (line 118).                          *)

\* the value a test passes to Mock for producer g: a pointer to an instance
\* of its own making (identities below 0), of the type g builds
MockValue(g) == PtrValue(ResultType(g), 0 - (Len(mockLog) + 1), 0)

MockOverwrites(g, v) ==
    /\ ~crashed
    /\ Depth("t1") = 0
    /\ Len(mockLog) < MaxMocks
    /\ mocks' = MapPut(mocks, g, v)
    /\ mockLog' = Append(mockLog, [g |-> g, val |-> v, err |-> NoErr])
    /\ UNCHANGED <<grabbers, pendding, mtx, stack, slot, hist, started,
                   built, nextId, crashed, probe,
                   predefinedGrabbers>>

\* container.Mock(g, v), called between the caller's Get calls
Mock(g, v) ==
    /\ ~crashed
    /\ Depth("t1") = 0
    /\ Len(mockLog) < MaxMocks
    /\ IF g \in DOMAIN mocks
       THEN /\ mockLog' = Append(mockLog,
                    [g |-> g, val |-> v, err |-> ErrAlreadyMocked])
            /\ UNCHANGED mocks
       ELSE /\ mocks' = MapPut(mocks, g, v)
            /\ mockLog' = Append(mockLog, [g |-> g, val |-> v, err |-> NoErr])
    /\ UNCHANGED <<grabbers, pendding, mtx, stack, slot, hist, started,
                   built, nextId, crashed, probe,
                   predefinedGrabbers>>

\* the overlay's Get: an override is assigned to dest at once, anything else
\* is delegated to Repository.Get
MockGet(t) ==
    /\ At(t, "mock")
    /\ IF Top(t).g \in DOMAIN mocks
       THEN Return(t, assign(Top(t).dest, mocks[Top(t).g], Before(t)))
       ELSE /\ stack' = SetTop(t, [Top(t) EXCEPT !.pc = EntryPc(Top(t).g)])
            /\ UNCHANGED <<slot, hist, crashed>>
    /\ UNCHANGED <<grabbers, pendding, mtx, started, built, nextId, mocks,
                   mockLog, probe,
                   predefinedGrabbers>>

------------------------------------------------------------------------------
(* assign applied directly to every shape of destination and value *)

ProbeIdle == [state |-> "idle"]

ProbeDests ==
    {DestBareIface, DestStruct}
    \cup {Dest("ptr", "struct", "bar", n) : n \in BOOLEAN}
    \cup {Dest("ptr", "ptr", T, n) : T \in BaseTypes, n \in BOOLEAN}
    \cup {Dest("ptr", "iface", i, n) : i \in Ifaces, n \in BOOLEAN}

ProbeValues ==
    {NilValue}
    \cup {StructValue(T) : T \in BaseTypes}
    \cup {PtrValue(T, i, 0) : T \in BaseTypes, i \in {0, 1}}

\* what the addressed slot holds before the call: nothing, or an instance
ProbeOlds == {NilValue, PtrValue("foo", 2, 0)}

Assign ==
    /\ probe.state = "input"
    /\ probe' = [state |-> "done", dest |-> probe.dest, src |-> probe.src,
                 old |-> probe.old,
                 out |-> assign(probe.dest, probe.src, probe.old)]
    /\ UNCHANGED <<grabbers, pendding, mtx, stack, slot, hist, started,
                   built, nextId, mocks, mockLog, crashed,
                   predefinedGrabbers>>

------------------------------------------------------------------------------
(* Specifications *)

\* grab.New(): empty maps, no call issued
Init ==
    /\ grabbers = <<>>
    /\ pendding = {}
    /\ mtx = MtxFree
    /\ stack = [t \in Threads |-> NoFrame]
    /\ slot = [t \in Threads |-> NilValue]
    /\ hist = [t \in Threads |-> <<>>]
    /\ started = [g \in Producers |-> 0]
    /\ built = [g \in Producers |-> 0]
    /\ nextId = 1
    /\ mocks = <<>>
    /\ mockLog = <<>>
    /\ crashed = FALSE
    /\ probe = ProbeIdle
    /\ predefinedGrabbers = <<>>

\* the destinations a caller passes for producer g: the three rejected
\* shapes, the address of an interface variable, the address of a *T variable
AllDests(g) == {DestBareIface, DestStruct, DestPtrStruct,
                DestPtrIface("speak"), DestPtrPtr(ResultType(g))}

\* one caller, every producer and every destination shape
NextSeq ==
    \/ \E g \in Producers : \E d \in AllDests(g) :
            Call("t1", "Repository", g, d, "L98", MaxCalls)
    \/ GetStep("t1")

SpecSeq == Init /\ [][NextSeq]_vars

\* concurrent callers
ConcProducers == {"grabFoo", "grabBar", "grabOops"}
ConcDests == {DestPtrIface("speak")}

Next ==
    \/ \E t \in Threads : \E g \in ConcProducers : \E d \in ConcDests :
            Call(t, "Repository", g, d, "L98", MaxConcCalls)
    \/ \E t \in Threads : GetStep(t)

Spec == Init /\ [][Next]_vars

\* one caller of the mock overlay
MockProducers == {"grabFoo", "grabBar", "grabOops"}
MockDests == {DestPtrStruct, DestPtrIface("speak")}

NextMock ==
    \/ \E g \in MockProducers : \E d \in MockDests :
            Call("t1", "Overlay", g, d, "mock", MaxCalls)
    \/ \E g \in MockProducers : Mock(g, MockValue(g))
    \/ MockGet("t1")
    \/ GetStep("t1")

SpecMock == Init /\ [][NextMock]_vars

\* assign alone
NextAssign == Assign

InitAssign ==
    /\ grabbers = <<>>
    /\ pendding = {}
    /\ mtx = MtxFree
    /\ stack = [t \in Threads |-> NoFrame]
    /\ slot = [t \in Threads |-> NilValue]
    /\ hist = [t \in Threads |-> <<>>]
    /\ started = [g \in Producers |-> 0]
    /\ built = [g \in Producers |-> 0]
    /\ nextId = 1
    /\ mocks = <<>>
    /\ mockLog = <<>>
    /\ crashed = FALSE
    /\ probe \in [state : {"input"}, dest : ProbeDests, src : ProbeValues,
                  old : ProbeOlds]
    /\ predefinedGrabbers = <<>>

SpecAssign == InitAssign /\ [][NextAssign]_vars

\* grab.New(namedCfg): one predefined grabber, under its name
InitNamed ==
    /\ grabbers = <<>>
    /\ pendding = {}
    /\ mtx = MtxFree
    /\ stack = [t \in Threads |-> NoFrame]
    /\ slot = [t \in Threads |-> NilValue]
    /\ hist = [t \in Threads |-> <<>>]
    /\ started = [g \in Producers \cup NamedGrabbers |-> 0]
    /\ built = [g \in Producers \cup NamedGrabbers |-> 0]
    /\ nextId = 1
    /\ mocks = <<>>
    /\ mockLog = <<>>
    /\ crashed = FALSE
    /\ probe = ProbeIdle
    /\ predefinedGrabbers = [n \in {Name("namedCfg")} |-> "namedCfg"]

\* one caller of a Repository with a predefined grabber
NamedInputs == NamedGrabbers \cup {"grabFoo", "grabBar", "grabOops"}
NamedDests == {DestPtrStruct, DestPtrIface("speak")}

NextNamed ==
    \/ \E g \in NamedInputs : \E d \in NamedDests :
            Call("t1", "Repository", g, d, EntryPc(g), MaxCalls)
    \/ RLockNamed("t1")
    \/ LookupNamed("t1")
    \/ GetStep("t1")

SpecNamed == InitNamed /\ [][NextNamed]_vars

------------------------------------------------------------------------------
(* Properties *)

Calls(t) == 1 .. Len(hist[t])

\* the destination shapes assign rejects, and the error of each
BadShape(d) == d \in {DestBareIface, DestStruct, DestPtrStruct}
ShapeError(d) ==
    IF d = DestBareIface THEN ErrDestInterfaceMustBePointer
    ELSE IF d = DestStruct THEN ErrDestMustBePointer
    ELSE ErrDestMustBeDoublePointer

\* the destinations that can receive what g builds
ValidDest(d, g) == d \in {DestPtrIface("speak"), DestPtrPtr(ResultType(g))}

\* the producers whose Grab returns a pointer when it is left alone
Succeeding == {"grabFoo", "grabBar"}

\* C1: single caller; two Get calls for a succeeding producer with valid
\* destinations both succeed, the producer's Grab has run once when the first
\* returns and still once when the second returns, and both destinations hold
\* the same instance, which is the cached one.
C1_SingletonIdentity ==
    \A i \in Calls("t1") : \A j \in Calls("t1") :
        LET a == hist["t1"][i]
            b == hist["t1"][j]
        IN (/\ i < j
            /\ a.g = b.g
            /\ a.g \in Succeeding
            /\ ValidDest(a.dest, a.g)
            /\ ValidDest(b.dest, b.g))
           => /\ a.err = NoErr /\ b.err = NoErr
              /\ a.n = 1 /\ b.n = 1
              /\ built[a.g] = 1
              /\ a.after.kind = "ptr" /\ a.after.id > 0
              /\ a.after = b.after
              /\ b.after = grabbers[a.g]

C1_Witness ==
    /\ Len(hist["t1"]) = 2
    /\ hist["t1"][1].g = "grabFoo" /\ hist["t1"][2].g = "grabFoo"
    /\ hist["t1"][1].dest = DestPtrPtr("foo")
    /\ hist["t1"][2].dest = DestPtrIface("speak")
    /\ hist["t1"][2].err = NoErr
    /\ hist["t1"][2].after.id > 0

\* C2: concurrent callers; no producer's Grab returns a value more than once
\* over the life of the Repository.
C2_AtMostOneConstruction == \A g \in Producers : built[g] <= 1

CycleProducers == {"grabSelf", "grabPing", "grabPong"}

\* frame k of t asks for a producer an enclosing frame of t is constructing
Reentrant(t, k) ==
    \E j \in 1 .. (k - 1) :
        stack[t][j].g = stack[t][k].g /\ stack[t][j].pc = "L118"

\* C3: single caller; a Get for a producer that an enclosing Get of the chain
\* is constructing never gets past the pending lookup, so the chain is at
\* most three calls deep; the producer that issued it (and every producer up
\* the chain) sees ErrCircularDependency, the caller's Get returns
\* ErrCircularDependency, and a call in progress always has a step to take.
C3_CycleDetected ==
    /\ \A k \in 1 .. Depth("t1") :
            Reentrant("t1", k) => stack["t1"][k].pc \in {"L98", "L99", "L106", "L107"}
    /\ Depth("t1") <= 3
    /\ \A k \in 1 .. Depth("t1") :
            LET f == stack["t1"][k]
            IN (f.g \in CycleProducers /\ f.pc = "L118" /\ f.di > 1)
               => f.err = ErrCircularDependency
    /\ \A i \in Calls("t1") :
            hist["t1"][i].g \in CycleProducers
            => hist["t1"][i].err = ErrCircularDependency
    /\ (Depth("t1") > 0 /\ ~crashed) => ENABLED GetStep("t1")

C3_Witness ==
    /\ Len(hist["t1"]) = 2
    /\ hist["t1"][1].g = "grabSelf"
    /\ hist["t1"][1].err = ErrCircularDependency
    /\ hist["t1"][2].g = "grabPing"
    /\ hist["t1"][2].err = ErrCircularDependency

\* the number of the first i calls of t that asked for g
RECURSIVE CallsFor(_, _, _)
CallsFor(t, g, i) ==
    IF i = 0 THEN 0
    ELSE CallsFor(t, g, i - 1) + (IF hist[t][i].g = g THEN 1 ELSE 0)

\* C4: single caller; a Get for a producer whose Grab fails returns that
\* error, every such call invokes Grab again (the k-th call for it is the
\* k-th invocation), the producer is never cached, and no pending mark is
\* left once the call has returned.
C4_RetryAfterFailure ==
    /\ \A i \in Calls("t1") :
            LET a == hist["t1"][i]
            IN /\ a.g = "grabOops" => a.err = errOops
               /\ a.g \in {"grabOops", "grabSelf"} => a.n = CallsFor("t1", a.g, i)
    /\ \A g \in {"grabOops"} \cup CycleProducers : g \notin DOMAIN grabbers
    /\ Depth("t1") = 0 => pendding = {}
    /\ \A k \in 1 .. Depth("t1") :
            stack["t1"][k].pc = "L120" => stack["t1"][k].g \in pendding

C4_Witness ==
    /\ Len(hist["t1"]) = 2
    /\ hist["t1"][1].g = "grabOops" /\ hist["t1"][2].g = "grabOops"
    /\ hist["t1"][2].err = errOops
    /\ hist["t1"][2].n = 2

\* C5: single caller; as long as every Get issued had a destination of a
\* rejected shape, each returned the error of its shape, no producer's Grab
\* was invoked, and the cache and the pending set are as New left them.
C5_ShapeCheckedBeforeConstruction ==
    (/\ \A i \in Calls("t1") : BadShape(hist["t1"][i].dest)
     /\ Depth("t1") > 0 => BadShape(stack["t1"][1].dest))
    => /\ \A i \in Calls("t1") :
            hist["t1"][i].err = ShapeError(hist["t1"][i].dest)
       /\ \A g \in Producers : started[g] = 0
       /\ grabbers = <<>>
       /\ pendding = {}

\* C6: single caller; a Get for grabBar with a valid destination succeeds
\* and delivers the cached bar, which embeds the cached foo; a Get for
\* grabFoo delivers that same cached foo, built once; no pending mark is left
\* when no call is in progress; a call issued from inside a producer finds
\* the guard free.
C6_ChainResolution ==
    /\ \A i \in Calls("t1") :
            LET a == hist["t1"][i]
            IN /\ (a.g = "grabBar" /\ ValidDest(a.dest, a.g))
                  => /\ a.err = NoErr
                     /\ {"grabFoo", "grabBar"} \subseteq DOMAIN grabbers
                     /\ a.after = grabbers["grabBar"]
                     /\ a.after.dep = grabbers["grabFoo"].id
                     /\ a.after.dep > 0
               /\ (a.g = "grabFoo" /\ ValidDest(a.dest, a.g))
                  => /\ a.err = NoErr
                     /\ a.after = grabbers["grabFoo"]
    /\ built["grabFoo"] <= 1 /\ built["grabBar"] <= 1
    /\ Depth("t1") = 0 => pendding = {}
    /\ (Depth("t1") >= 2 /\ ~crashed) =>
            /\ Top("t1").pc \in {"L98", "L106"} => CanRLock
            /\ Top("t1").pc \in {"L114", "L120", "L126"} => CanLock

C6_Witness ==
    /\ Len(hist["t1"]) = 2
    /\ hist["t1"][1].g = "grabBar" /\ hist["t1"][1].err = NoErr
    /\ hist["t1"][2].g = "grabFoo" /\ hist["t1"][2].err = NoErr
    /\ hist["t1"][1].after.dep = hist["t1"][2].after.id
    /\ pendding = {}

\* C7: assign on a destination that is not nil and, for a pointer value, can
\* hold the value's type: the first failure in the order bare interface,
\* non-pointer, pointer to a slot that is neither interface nor pointer, value
\* that is not a pointer (the nil value included); otherwise success with the
\* slot holding the value.
C7_AssignOrder ==
    (/\ probe.state = "done"
     /\ ~probe.dest.null
     /\ probe.src.kind = "ptr" => AssignableTo(probe.src, probe.dest))
    => probe.out =
        (IF probe.dest.kind = "nil"
            THEN [err |-> ErrDestInterfaceMustBePointer, slot |-> probe.old]
         ELSE IF probe.dest.kind # "ptr"
            THEN [err |-> ErrDestMustBePointer, slot |-> probe.old]
         ELSE IF probe.dest.elem \notin {"iface", "ptr"}
            THEN [err |-> ErrDestMustBeDoublePointer, slot |-> probe.old]
         ELSE IF probe.src.kind # "ptr"
            THEN [err |-> ErrSrcMustBePointer, slot |-> probe.old]
         ELSE [err |-> NoErr, slot |-> probe.src])

\* C8: single caller; a Get that returned an error left the caller's
\* variable as it was, and a producer whose c.Get failed finds its local
\* variable as it was (nil).
C8_DestUntouchedOnError ==
    /\ \A i \in Calls("t1") :
            hist["t1"][i].err # NoErr
            => hist["t1"][i].after = hist["t1"][i].before
    /\ \A k \in 1 .. Depth("t1") :
            stack["t1"][k].err # NoErr => stack["t1"][k].local = NilValue

C8_Witness ==
    /\ Len(hist["t1"]) = 2
    /\ hist["t1"][2].err = ErrSrcMustBePointer
    /\ hist["t1"][2].before.kind = "ptr"
    /\ hist["t1"][2].after = hist["t1"][2].before

\* in a step in which the overlay's Get finds an override for the producer
\* asked for: the Repository's cache, pending set and construction counts
\* stay as they are and the override itself lands in the slot dest addresses
MockedGetStep ==
    (At("t1", "mock") /\ Top("t1").g \in DOMAIN mocks)
    => /\ grabbers' = grabbers
       /\ pendding' = pendding
       /\ started' = started
       /\ built' = built
       /\ IF Depth("t1") = 1
          THEN ValidDest(Top("t1").dest, Top("t1").g)
               => /\ slot'["t1"] = mocks[Top("t1").g]
                  /\ hist'["t1"][Len(hist'["t1"])].err = NoErr
          ELSE /\ stack'["t1"][Depth("t1") - 1].local = mocks[Top("t1").g]
               /\ stack'["t1"][Depth("t1") - 1].err = NoErr

\* C9: overlay, single caller; every Get for a producer that has an
\* override, whether the caller or a producer issued it, is at the override
\* lookup and nowhere in Repository.Get; its step delivers the override and
\* leaves cache, pending set and construction counts alone; grabBar built
\* while grabFoo has an override embeds the override.
C9_MockPrecedence ==
    /\ [](\A k \in 1 .. Depth("t1") :
            LET f == stack["t1"][k]
            IN /\ f.g \in DOMAIN mocks => f.pc = "mock"
               /\ (f.g = "grabBar" /\ f.pc \in {"L126", "L127"}
                        /\ "grabFoo" \in DOMAIN mocks)
                  => f.val.dep = mocks["grabFoo"].id)
    /\ [][MockedGetStep]_vars

\* the first Mock call for g among the first k that recorded an override
FirstMock(g, k) ==
    CHOOSE i \in 1 .. k :
        /\ mockLog[i].g = g
        /\ \A j \in 1 .. (i - 1) : mockLog[j].g # g

\* C10: overlay, single caller; a Mock call fails with ErrAlreadyMocked
\* exactly when an earlier Mock call named the same producer, the override
\* kept for a producer is the value of the first Mock call for it, a
\* delivered override is the kept one, and no step removes or replaces an
\* override.
C10_MockWriteOnce ==
    /\ [](/\ \A k \in 1 .. Len(mockLog) :
               /\ mockLog[k].err =
                    IF \E j \in 1 .. (k - 1) : mockLog[j].g = mockLog[k].g
                    THEN ErrAlreadyMocked ELSE NoErr
               /\ mockLog[k].g \in DOMAIN mocks
               /\ mocks[mockLog[k].g] = mockLog[FirstMock(mockLog[k].g, k)].val
          /\ \A i \in Calls("t1") :
               LET a == hist["t1"][i]
               IN (a.g \in DOMAIN mocks /\ a.err = NoErr /\ a.after.id < 0)
                  => a.after = mocks[a.g])
    /\ [][\A g \in DOMAIN mocks : g \in DOMAIN mocks' /\ mocks'[g] = mocks[g]]_vars

C10_Witness ==
    /\ Len(mockLog) = 2
    /\ mockLog[1].g = mockLog[2].g
    /\ mockLog[2].err = ErrAlreadyMocked
    /\ mockLog[2].val # mockLog[1].val
    /\ mocks[mockLog[1].g] = mockLog[1].val
    /\ Len(hist["t1"]) = 2
    /\ hist["t1"][2].g = mockLog[1].g
    /\ hist["t1"][2].after = mockLog[1].val

\* t is running its producer's own code (not a Get the producer issued)
InGrab(t) == Depth(t) > 0 /\ Top(t).pc = "L118"

\* t holds the guard, in either mode
Holds(t) == t \in mtx.readers \/ mtx.writer = t

\* C11: concurrent callers; a caller running its producer's code holds the
\* guard in neither mode, and while it stays there every Get another caller
\* has in progress has a step to take (so that Get, whose steps are finitely
\* many, runs to its return without the producer ever returning).
C11_GuardFreeDuringGrab ==
    \A t \in Threads :
        (InGrab(t) /\ ~crashed)
        => /\ ~Holds(t)
           /\ \A u \in Threads \ {t} : Depth(u) > 0 => ENABLED GetStep(u)

C11_Witness ==
    /\ InGrab("t1") /\ Top("t1").g = "grabOops" /\ Depth("t1") = 1
    /\ Depth("t2") = 1 /\ Top("t2").g = "grabFoo" /\ Top("t2").pc = "L127"
    /\ mtx.writer = "t2"
    /\ hist["t2"] # <<>>

\* g is a grabber Get has to replace by the predefined one of its name
Substituted(g) ==
    /\ g \in NamedGrabbers
    /\ Name(g) # ""
    /\ Name(g) \in DOMAIN predefinedGrabbers
    /\ predefinedGrabbers[Name(g)] # g

\* C12: Repository with a predefined grabber, single caller; no Get ends the
\* process; past the predefined lookup a call works on the predefined grabber
\* of its grabber's name, or on the grabber itself if the name is empty or not
\* registered, so a replaced grabber is never constructed, marked pending,
\* cached or the subject of a returned call.
C12_NamedSubstitution ==
    /\ ~crashed
    /\ \A k \in 1 .. Depth("t1") :
            Substituted(stack["t1"][k].g) => stack["t1"][k].pc \in {"L88", "L89"}
    /\ \A g \in DOMAIN grabbers \cup pendding : ~Substituted(g)
    /\ \A g \in NamedGrabbers : Substituted(g) => started[g] = 0
    /\ \A i \in Calls("t1") : ~Substituted(hist["t1"][i].g)

\* the positions of Get at which the caller is inside a critical section,
\* and the mode of the release that ends it: Unlock at line 92, RUnlock at
\* 100 and 108, Unlock at 116, 122 and 129
CriticalPcs == {"L89", "L99", "L107", "L115", "L121", "L127"}
ReleaseMode(pc) == IF pc \in {"L99", "L107"} THEN "shared" ELSE "exclusive"

\* the mode in which t holds the guard
HeldMode(t) ==
    IF mtx.writer = t THEN "exclusive"
    ELSE IF t \in mtx.readers THEN "shared"
    ELSE "none"

\* C16: Repository with a predefined grabber, single caller; a caller inside
\* a critical section of Get holds the guard in the mode of the release that
\* ends the section (shared for the three lookups, exclusive for the
\* sections that write pendding or grabbers), holds it nowhere else, and the
\* guard has no reader and no writer when no Get is in progress.
C16_GuardDiscipline ==
    ~crashed =>
    /\ \A t \in Threads :
            IF Depth(t) > 0 /\ Top(t).pc \in CriticalPcs
            THEN /\ HeldMode(t) = ReleaseMode(Top(t).pc)
                 /\ Top(t).pc \in {"L89", "L99", "L107"} => HeldMode(t) = "shared"
            ELSE HeldMode(t) = "none"
    /\ (\A t \in Threads : Depth(t) = 0) => mtx = MtxFree

\* C13: concurrent callers; the producer of every Get that has marked it
\* pending and whose construction is running or has succeeded (lines 118,
\* 126, 127) is marked pending or cached.
C13_PendingOrCached ==
    \A t \in Threads : \A k \in 1 .. Depth(t) :
        stack[t][k].pc \in {"L118", "L126", "L127"}
        => stack[t][k].g \in pendding \cup DOMAIN grabbers

\* C14: concurrent callers; a Get about to return ErrCircularDependency (its
\* pending lookup found the mark) has an enclosing Get of the same caller
\* that is constructing the same producer.
C14_CircularOnlyReentrant ==
    \A t \in Threads :
        (At(t, "L107") /\ Top(t).g \in pendding) => Reentrant(t, Depth(t))

\* C15: concurrent callers; no step removes a cache entry or changes the
\* instance it holds.
C15_CacheEntryPermanent ==
    [][\A g \in DOMAIN grabbers :
            g \in DOMAIN grabbers' /\ grabbers'[g] = grabbers[g]]_vars

\* the frames of t1 between the marking of their producer (line 115) and
\* its unmarking (lines 121, 128)
Marked(k) == stack["t1"][k].pc \in {"L118", "L120", "L121", "L126", "L127"}

\* C17: single caller; the step in which a Get returns ErrCircularDependency
\* leaves cache and pending set as they are; the producer of every Get
\* between its marking and its unmarking is marked pending; the step in which
\* a Get leaves lines 121-123 (failure) or 127-131 (success) removes the mark
\* of its producer.  (A panicking Get has unwound; its frame is not read.)
C17_CircularLeavesMark ==
    /\ [](~crashed =>
            \A k \in 1 .. Depth("t1") : Marked(k) => stack["t1"][k].g \in pendding)
    /\ [][/\ (At("t1", "L107") /\ Top("t1").g \in pendding)
                => (grabbers' = grabbers /\ pendding' = pendding)
          /\ ((At("t1", "L121") \/ At("t1", "L127")) /\ stack' # stack)
                => Top("t1").g \notin pendding']_vars

C17_Witness ==
    /\ Depth("t1") = 2
    /\ stack["t1"][1].g = "grabPing" /\ stack["t1"][1].pc = "L118"
    /\ stack["t1"][2].g = "grabPong" /\ stack["t1"][2].pc = "L118"
    /\ stack["t1"][2].err = ErrCircularDependency
    /\ pendding = {"grabPing", "grabPong"}
    /\ grabbers = <<>>

\* C18: concurrent callers; when no caller has a Get in progress the pending
\* set is empty.
C18_Quiescence ==
    (\A t \in Threads : Depth(t) = 0) => pendding = {}

C18_Witness ==
    /\ \A t \in Threads : Depth(t) = 0
    /\ Len(hist["t1"]) = 2 /\ Len(hist["t2"]) = 1
    /\ hist["t1"][1].g = "grabBar" /\ hist["t1"][1].err = ErrCircularDependency
    /\ hist["t1"][2].g = "grabOops" /\ hist["t1"][2].err = errOops
    /\ hist["t2"][1].g = "grabFoo" /\ hist["t2"][1].err = NoErr
    /\ pendding = {}

\* C19: concurrent callers; no producer is both cached and marked pending.
C19_CacheAndPendingDisjoint ==
    DOMAIN grabbers \cap pendding = {}

\* C20: single caller; a producer for which every Get issued so far was a
\* Get for that producer that returned an error is not in the cache.
C20_FailedGetNotMemoized ==
    \A g \in Producers :
        (/\ Depth("t1") = 0
         /\ hist["t1"] # <<>>
         /\ \A i \in Calls("t1") :
                hist["t1"][i].g = g /\ hist["t1"][i].err # NoErr)
        => g \notin DOMAIN grabbers

====
